---- MODULE Spec2Model ----
(***************************************************************************)
(* arboriter: the depth-first traversal engine traverse_tree of            *)
(* src/src/lib.rs, as a state machine.  The recursion of traverse_internal *)
(* is the variable stack (one frame per active call), the value a call     *)
(* returns to its caller is ret, and calls is the history of every         *)
(* callback invocation (condition, branch_fn, visit_fn) in call order.     *)
(***************************************************************************)
EXTENDS Integers, Sequences, FiniteSets, TLC

VARIABLES
    kind,      \* which caller is running: a generic tree or one of lib.rs's own callers
    root,      \* initial: the root value handed to traverse_tree
    branch,    \* generic tree: node -> ordered children (the caller's branch_fn)
    cond,      \* generic tree: node -> BOOLEAN (the caller's condition)
    policy,    \* generic tree: node -> TreeControl (what the caller's visit_fn returns)
    pc,        \* position inside traverse_tree: "start", "run", "done"
    stack,     \* active traverse_internal frames, the root's first
    ret,       \* value returned by the frame that has just returned, "None" otherwise
    calls      \* history: every callback call made so far, in order

vars == <<kind, root, branch, cond, policy, pc, stack, ret, calls>>

inputs == <<kind, root, branch, cond, policy>>

\* Largest number of nodes of a generic tree.
MaxSize == 4

\* Largest number of nodes of a tree that is traversed from each of its nodes in turn.
MaxLoopSize == 3

\* Largest number of statements of a for_tree! body.
MaxBody == 2

\* Largest number of distinct node values of a caller whose branch_fn may
\* return the same value more than once.
MaxValues == 3

\* Largest number of traversals a caller runs on the same arguments.
MaxRuns == 2

\* pub enum TreeControl { Continue, Prune, Break }
TreeControl == {"Continue", "Prune", "Break"}

----------------------------------------------------------------------------
(* The callers' closures.                                                  *)

\* The parent of every node but the root, for a tree on the nodes 1..k.
Parents(k) == [2..k -> 1..k]

WellFormed(k, par) == \A i \in 2..k : par[i] < i

RECURSIVE ChildrenFrom(_, _, _, _)
\* The children of n among the nodes i..k, in ascending order.
ChildrenFrom(k, par, n, i) ==
    IF i > k THEN <<>>
    ELSE IF par[i] = n THEN <<i>> \o ChildrenFrom(k, par, n, i + 1)
    ELSE ChildrenFrom(k, par, n, i + 1)

\* The branch function of the tree given by a parent map.
BranchOf(k, par) == [n \in 1..k |-> ChildrenFrom(k, par, n, 2)]

\* What a for_tree! body is made of here: a statement with a side effect
\* (values.push(..), println!(..)), prune!() and break_tree!().
Statements == {"push", "prune", "break_tree"}

Bodies == UNION {[1..k -> Statements] : k \in 0..MaxBody}

\* RunBody with prune!() and break_tree!() as plain expressions, not
\* `return`s: the block's last expression always decides.
RunBody_NoReturn(body, i) == "Continue"

RECURSIVE RunBody(_, _)
\* The visitor for_tree! builds: |$var| { let result = { $body
\* $crate::TreeControl::Continue }; result }, with prune!() expanding to
\* `return TreeControl::Prune;` and break_tree!() to `return TreeControl::Break;`.
\* The body runs from statement i on.
RunBody(body, i) ==
    IF i > Len(body) THEN "Continue"
    ELSE CASE body[i] = "prune"      -> "Prune"
           [] body[i] = "break_tree" -> "Break"
           [] OTHER                  -> RunBody(body, i + 1)

\* MCTSNode of examples/monte_carlo_tree_search.rs.  policy[n] is the game
\* state of node n (its valid moves, as the nodes they lead to, and whether
\* it is terminal), branch[n] the children expanded so far.  expand() pops
\* the last unexpanded move, so the moves not yet expanded are a prefix.
unexpanded_moves(n) ==
    SubSeq(policy[n].moves, 1, Len(policy[n].moves) - Len(branch[n]))

\* self.unexpanded_moves.is_empty()
is_fully_expanded(n) == unexpanded_moves(n) = <<>>

\* self.children.is_empty() || self.state.is_terminal()
is_leaf(n) == branch[n] = <<>> \/ policy[n].terminal

\* best_child(true): None without children, otherwise the index of a child
\* of largest UCB1 value.  The values come from the rewards of random
\* simulations, so any child may be the best one: cond[n] holds the place,
\* counted from 1, of the one this selection finds best.
best_child(n) == IF branch[n] = <<>> THEN 0 ELSE cond[n]

\* condition: C, called as condition(&node).  "tree": any predicate on an
\* in-memory tree; "heap": the prune! doc test (|n| *n < 8); "chain":
\* tests::test_break (|n| *n < 10); "strings": tests::test_string_generation;
\* "evens": the TreeControl doc test (|_| true); "for_tree": the for_tree!
\* doc example (|_| true); "values": any predicate on node values that
\* branch_fn may return at several places; "fs": traverse_fs of
\* examples/filesystem.rs (|_| true; a directory's children, none for a
\* file, whose children are empty; a body that runs to its end); "mcts":
\* MCTS::selection (|(_, node)| node.is_leaf() == false; the best child
\* alone; break_tree!() at a terminal or not fully expanded node).
Condition(n) ==
    CASE kind \in {"tree", "values"} -> cond[n]
      [] kind = "fs"      -> TRUE
      [] kind = "mcts"    -> ~is_leaf(n)
      [] kind = "for_tree" -> TRUE
      [] kind = "evens"   -> TRUE
      [] kind = "heap"    -> n < 8
      [] kind = "chain"   -> n < 10
      [] kind = "strings" -> Len(n) <= 2

\* branch_fn: B, called as branch_fn(node)
BranchFn(n) ==
    CASE kind \in {"tree", "values"} -> branch[n]
      [] kind = "fs"      -> branch[n]
      [] kind = "mcts"    -> IF best_child(n) = 0 THEN <<>>
                             ELSE <<branch[n][best_child(n)]>>
      [] kind = "for_tree" -> IF n = 10 THEN <<5, 15>> ELSE <<>>
      [] kind = "evens"   -> <<n + 1>>
      [] kind = "heap"    -> <<n * 2, n * 2 + 1>>
      [] kind = "chain"   -> <<n + 1>>
      [] kind = "strings" -> <<Append(n, "a"), Append(n, "b")>>

\* visit_fn: F, called as visit_fn(node); the for_tree! body's result
VisitFn(n) ==
    CASE kind \in {"tree", "values"} -> policy[n]
      [] kind = "fs"      -> "Continue"
      [] kind = "mcts"    -> IF policy[n].terminal THEN "Break"
                             ELSE IF ~is_fully_expanded(n) THEN "Break"
                             ELSE "Continue"
      [] kind = "for_tree" -> RunBody(policy[n], 1)
      [] kind = "evens"   -> IF n % 2 = 0 THEN "Prune" ELSE "Continue"
      [] kind = "heap"    -> IF n % 2 = 0 THEN "Prune" ELSE "Continue"
      [] kind = "chain"   -> IF n >= 5 THEN "Break" ELSE "Continue"
      [] kind = "strings" -> IF Len(n) = 2 THEN "Prune" ELSE "Continue"

----------------------------------------------------------------------------
(* The engine.                                                             *)

Call(op, n, res) == [op |-> op, node |-> n, res |-> res]

\* A fresh traverse_internal activation on node n, about to call visit_fn.
Frame(n) == [node |-> n, at |-> "visit", children |-> <<>>, i |-> 1]

Top == stack[Len(stack)]

Pop == SubSeq(stack, 1, Len(stack) - 1)

SetTop(f) == [stack EXCEPT ![Len(stack)] = f]

\* `return v` in traverse_internal: the frame goes, its caller sees v.
Return(v) ==
    /\ stack' = Pop
    /\ ret' = v

InitTree ==
    \E k \in 1..MaxSize : \E par \in Parents(k) :
        /\ WellFormed(k, par)
        /\ kind = "tree"
        /\ root = 1
        /\ branch = BranchOf(k, par)
        /\ cond \in [1..k -> BOOLEAN]
        /\ policy \in [1..k -> TreeControl]

\* tests::test_binary_tree and tests::test_prune: the tree 1(2(4, 5), 3(-, 6)),
\* every node eligible; test_prune prunes at the node with value 2.
TestTree == [n \in 1..6 |-> CASE n = 1 -> <<2, 3>> [] n = 2 -> <<4, 5>>
                                [] n = 3 -> <<6>> [] OTHER -> <<>>]

InitBinaryNode ==
    /\ kind = "tree"
    /\ root = 1
    /\ branch = TestTree
    /\ cond = [n \in 1..6 |-> TRUE]
    /\ \/ policy = [n \in 1..6 |-> "Continue"]
       \/ policy = [n \in 1..6 |-> IF n = 2 THEN "Prune" ELSE "Continue"]

InitFixed ==
    /\ \/ kind = "heap" /\ root \in {1, 11}
       \/ kind = "chain" /\ root = 0
       \/ kind = "strings" /\ root = <<>>
    /\ branch = <<>>
    /\ cond = <<>>
    /\ policy = <<>>

Init ==
    /\ InitTree \/ InitBinaryNode \/ InitFixed
    /\ pc = "start"
    /\ stack = <<>>
    /\ ret = "None"
    /\ calls = <<>>

\* CheckRoot without its guard: traverse_internal(&initial, ...) whatever
\* condition(&initial) says.
CheckRoot_Unguarded ==
    /\ pc = "start"
    /\ calls' = Append(calls, Call("condition", root, Condition(root)))
    /\ pc' = "run"
    /\ stack' = <<Frame(root)>>
    /\ UNCHANGED <<inputs, ret>>

\* CheckRoot as `if condition(&initial) && condition(&initial)`: an eligible
\* root is checked a second time.
CheckRoot_ChecksTwice ==
    /\ pc = "start"
    /\ IF Condition(root)
       THEN /\ calls' = calls \o <<Call("condition", root, TRUE), Call("condition", root, TRUE)>>
            /\ pc' = "run"
            /\ stack' = <<Frame(root)>>
       ELSE /\ calls' = Append(calls, Call("condition", root, FALSE))
            /\ pc' = "done"
            /\ stack' = stack
    /\ UNCHANGED <<inputs, ret>>

\* CheckRoot with a flag the engine would keep: once some traversal has
\* broken, later calls return at once.
CheckRoot_StickyBreak ==
    /\ pc = "start"
    /\ calls' = Append(calls, Call("condition", root, Condition(root)))
    /\ IF Condition(root) /\ ~(\E k \in DOMAIN calls : calls[k].op = "visit" /\ calls[k].res = "Break")
       THEN pc' = "run" /\ stack' = <<Frame(root)>>
       ELSE pc' = "done" /\ stack' = stack
    /\ UNCHANGED <<inputs, ret>>

\* traverse_tree: if condition(&initial) { traverse_internal(&initial, ...); }
CheckRoot ==
    /\ pc = "start"
    /\ calls' = Append(calls, Call("condition", root, Condition(root)))
    /\ IF Condition(root)
       THEN pc' = "run" /\ stack' = <<Frame(root)>>
       ELSE pc' = "done" /\ stack' = stack
    /\ UNCHANGED <<inputs, ret>>

\* VisitNode with `Prune => return TreeControl::Break`.
VisitNode_PruneBreaks ==
    /\ pc = "run"
    /\ stack # <<>>
    /\ Top.at = "visit"
    /\ LET result == VisitFn(Top.node) IN
        /\ calls' = Append(calls, Call("visit", Top.node, result))
        /\ CASE result = "Break"    -> Return("Break")
             [] result = "Prune"    -> Return("Break")
             [] result = "Continue" ->
                    /\ stack' = SetTop([Top EXCEPT !.at = "branch"])
                    /\ ret' = ret
    /\ UNCHANGED <<inputs, pc>>

\* VisitNode with `Prune => {}`: a pruned node falls through to its children.
VisitNode_PruneFallsThrough ==
    /\ pc = "run"
    /\ stack # <<>>
    /\ Top.at = "visit"
    /\ LET result == VisitFn(Top.node) IN
        /\ calls' = Append(calls, Call("visit", Top.node, result))
        /\ CASE result = "Break"    -> Return("Break")
             [] result \in {"Prune", "Continue"} ->
                    /\ stack' = SetTop([Top EXCEPT !.at = "branch"])
                    /\ ret' = ret
    /\ UNCHANGED <<inputs, pc>>

\* let result = visit_fn(node); match result { Break => return Break,
\* Prune => return Continue, Continue => {} }
VisitNode ==
    /\ pc = "run"
    /\ stack # <<>>
    /\ Top.at = "visit"
    /\ LET result == VisitFn(Top.node) IN
        /\ calls' = Append(calls, Call("visit", Top.node, result))
        /\ CASE result = "Break"    -> Return("Break")
             [] result = "Prune"    -> Return("Continue")
             [] result = "Continue" ->
                    /\ stack' = SetTop([Top EXCEPT !.at = "branch"])
                    /\ ret' = ret
    /\ UNCHANGED <<inputs, pc>>

\* BranchNode that moves the children out of the node it branches on.
BranchNode_TakesChildren ==
    /\ pc = "run"
    /\ stack # <<>>
    /\ Top.at = "branch"
    /\ calls' = Append(calls, Call("branch", Top.node, BranchFn(Top.node)))
    /\ stack' = SetTop([Top EXCEPT !.at = "loop", !.children = BranchFn(Top.node), !.i = 1])
    /\ branch' = IF kind = "tree" THEN [branch EXCEPT ![Top.node] = <<>>] ELSE branch
    /\ UNCHANGED <<kind, root, cond, policy, pc, ret>>

\* BranchNode as a filtering pass: condition is evaluated on all the children
\* at once, before the first of them is entered.
BranchNode_PreFilters ==
    /\ pc = "run"
    /\ stack # <<>>
    /\ Top.at = "branch"
    /\ LET cs == BranchFn(Top.node) IN
        /\ calls' = Append(calls, Call("branch", Top.node, cs))
                        \o [i \in DOMAIN cs |-> Call("condition", cs[i], Condition(cs[i]))]
        /\ stack' = SetTop([Top EXCEPT !.at = "loop", !.children = cs, !.i = 1])
    /\ UNCHANGED <<inputs, pc, ret>>

\* for child in branch_fn(node): the call that produces the children
BranchNode ==
    /\ pc = "run"
    /\ stack # <<>>
    /\ Top.at = "branch"
    /\ calls' = Append(calls, Call("branch", Top.node, BranchFn(Top.node)))
    /\ stack' = SetTop([Top EXCEPT !.at = "loop", !.children = BranchFn(Top.node), !.i = 1])
    /\ UNCHANGED <<inputs, pc, ret>>

\* NextChild with a memo of condition: a node whose condition was evaluated
\* before is not evaluated again, the remembered result is used.
NextChild_Memoized ==
    /\ pc = "run"
    /\ stack # <<>>
    /\ Top.at = "loop"
    /\ IF Top.i > Len(Top.children)
       THEN /\ Return("Continue")
            /\ calls' = calls
       ELSE LET child == Top.children[Top.i] IN
            /\ calls' = IF \E k \in DOMAIN calls : calls[k].op = "condition" /\ calls[k].node = child
                        THEN calls
                        ELSE Append(calls, Call("condition", child, Condition(child)))
            /\ ret' = ret
            /\ IF Condition(child)
               THEN stack' = Append(SetTop([Top EXCEPT !.at = "call"]), Frame(child))
               ELSE stack' = SetTop([Top EXCEPT !.i = Top.i + 1])
    /\ UNCHANGED <<inputs, pc>>

\* NextChild that skips a child whose value has been visited before.
NextChild_Dedups ==
    /\ pc = "run"
    /\ stack # <<>>
    /\ Top.at = "loop"
    /\ IF Top.i > Len(Top.children)
       THEN /\ Return("Continue")
            /\ calls' = calls
       ELSE LET child == Top.children[Top.i]
                seen == \E k \in DOMAIN calls : calls[k].op = "visit" /\ calls[k].node = child
            IN
            /\ calls' = Append(calls, Call("condition", child, Condition(child)))
            /\ ret' = ret
            /\ IF Condition(child) /\ ~seen
               THEN stack' = Append(SetTop([Top EXCEPT !.at = "call"]), Frame(child))
               ELSE stack' = SetTop([Top EXCEPT !.i = Top.i + 1])
    /\ UNCHANGED <<inputs, pc>>

\* NextChild taking the children from the last to the first.
NextChild_Reversed ==
    /\ pc = "run"
    /\ stack # <<>>
    /\ Top.at = "loop"
    /\ IF Top.i > Len(Top.children)
       THEN /\ Return("Continue")
            /\ calls' = calls
       ELSE LET child == Top.children[Len(Top.children) + 1 - Top.i] IN
            /\ calls' = Append(calls, Call("condition", child, Condition(child)))
            /\ ret' = ret
            /\ IF Condition(child)
               THEN stack' = Append(SetTop([Top EXCEPT !.at = "call"]), Frame(child))
               ELSE stack' = SetTop([Top EXCEPT !.i = Top.i + 1])
    /\ UNCHANGED <<inputs, pc>>

\* NextChild recursing into a child whatever condition(&child) says.
NextChild_Unguarded ==
    /\ pc = "run"
    /\ stack # <<>>
    /\ Top.at = "loop"
    /\ IF Top.i > Len(Top.children)
       THEN /\ Return("Continue")
            /\ calls' = calls
       ELSE LET child == Top.children[Top.i] IN
            /\ calls' = Append(calls, Call("condition", child, Condition(child)))
            /\ ret' = ret
            /\ stack' = Append(SetTop([Top EXCEPT !.at = "call"]), Frame(child))
    /\ UNCHANGED <<inputs, pc>>

\* NextChild leaving the loop at the first child that fails condition.
NextChild_StopsAtIneligible ==
    /\ pc = "run"
    /\ stack # <<>>
    /\ Top.at = "loop"
    /\ IF Top.i > Len(Top.children)
       THEN /\ Return("Continue")
            /\ calls' = calls
       ELSE LET child == Top.children[Top.i] IN
            /\ calls' = Append(calls, Call("condition", child, Condition(child)))
            /\ IF Condition(child)
               THEN /\ stack' = Append(SetTop([Top EXCEPT !.at = "call"]), Frame(child))
                    /\ ret' = ret
               ELSE Return("Continue")
    /\ UNCHANGED <<inputs, pc>>

\* NextChild reporting Break for a node without children.
NextChild_EmptyBreaks ==
    /\ pc = "run"
    /\ stack # <<>>
    /\ Top.at = "loop"
    /\ IF Top.i > Len(Top.children)
       THEN /\ Return(IF Top.children = <<>> THEN "Break" ELSE "Continue")
            /\ calls' = calls
       ELSE LET child == Top.children[Top.i] IN
            /\ calls' = Append(calls, Call("condition", child, Condition(child)))
            /\ ret' = ret
            /\ IF Condition(child)
               THEN stack' = Append(SetTop([Top EXCEPT !.at = "call"]), Frame(child))
               ELSE stack' = SetTop([Top EXCEPT !.i = Top.i + 1])
    /\ UNCHANGED <<inputs, pc>>

\* NextChild that never leaves the loop after the last child.
NextChild_SpinsAtEnd ==
    /\ pc = "run"
    /\ stack # <<>>
    /\ Top.at = "loop"
    /\ IF Top.i > Len(Top.children)
       THEN UNCHANGED <<stack, ret, calls>>
       ELSE LET child == Top.children[Top.i] IN
            /\ calls' = Append(calls, Call("condition", child, Condition(child)))
            /\ ret' = ret
            /\ IF Condition(child)
               THEN stack' = Append(SetTop([Top EXCEPT !.at = "call"]), Frame(child))
               ELSE stack' = SetTop([Top EXCEPT !.i = Top.i + 1])
    /\ UNCHANGED <<inputs, pc>>

\* NextChild that reuses its own frame for the child instead of recursing.
NextChild_ReplacesFrame ==
    /\ pc = "run"
    /\ stack # <<>>
    /\ Top.at = "loop"
    /\ IF Top.i > Len(Top.children)
       THEN /\ Return("Continue")
            /\ calls' = calls
       ELSE LET child == Top.children[Top.i] IN
            /\ calls' = Append(calls, Call("condition", child, Condition(child)))
            /\ ret' = ret
            /\ IF Condition(child)
               THEN stack' = SetTop(Frame(child))
               ELSE stack' = SetTop([Top EXCEPT !.i = Top.i + 1])
    /\ UNCHANGED <<inputs, pc>>

\* One turn of the for loop: the next child, its condition check and the
\* recursive call; or the end of the loop and `TreeControl::Continue`.
NextChild ==
    /\ pc = "run"
    /\ stack # <<>>
    /\ Top.at = "loop"
    /\ IF Top.i > Len(Top.children)
       THEN /\ Return("Continue")
            /\ calls' = calls
       ELSE LET child == Top.children[Top.i] IN
            /\ calls' = Append(calls, Call("condition", child, Condition(child)))
            /\ ret' = ret
            /\ IF Condition(child)
               THEN stack' = Append(SetTop([Top EXCEPT !.at = "call"]), Frame(child))
               ELSE stack' = SetTop([Top EXCEPT !.i = Top.i + 1])
    /\ UNCHANGED <<inputs, pc>>

\* ChildReturned as `return traverse_internal(..)`: the first eligible child's
\* result ends the loop.
ChildReturned_ReturnsChild ==
    /\ pc = "run"
    /\ stack # <<>>
    /\ Top.at = "call"
    /\ ret # "None"
    /\ Return(ret)
    /\ UNCHANGED <<inputs, pc, calls>>

\* ChildReturned without the test of child_result: the loop goes on after Break.
ChildReturned_IgnoresBreak ==
    /\ pc = "run"
    /\ stack # <<>>
    /\ Top.at = "call"
    /\ ret # "None"
    /\ stack' = SetTop([Top EXCEPT !.at = "loop", !.i = Top.i + 1])
    /\ ret' = "None"
    /\ UNCHANGED <<inputs, pc, calls>>

\* ChildReturned leaving the loop on Break but reporting Continue to its caller.
ChildReturned_AttenuatesBreak ==
    /\ pc = "run"
    /\ stack # <<>>
    /\ Top.at = "call"
    /\ ret # "None"
    /\ IF ret = "Break"
       THEN Return("Continue")
       ELSE /\ stack' = SetTop([Top EXCEPT !.at = "loop", !.i = Top.i + 1])
            /\ ret' = "None"
    /\ UNCHANGED <<inputs, pc, calls>>

\* ChildReturned that does not advance to the next child.
ChildReturned_NoAdvance ==
    /\ pc = "run"
    /\ stack # <<>>
    /\ Top.at = "call"
    /\ ret # "None"
    /\ IF ret = "Break"
       THEN Return("Break")
       ELSE /\ stack' = SetTop([Top EXCEPT !.at = "loop"])
            /\ ret' = "None"
    /\ UNCHANGED <<inputs, pc, calls>>

\* let child_result = traverse_internal(..); if child_result == Break { return Break; }
ChildReturned ==
    /\ pc = "run"
    /\ stack # <<>>
    /\ Top.at = "call"
    /\ ret # "None"
    /\ IF ret = "Break"
       THEN Return("Break")
       ELSE /\ stack' = SetTop([Top EXCEPT !.at = "loop", !.i = Top.i + 1])
            /\ ret' = "None"
    /\ UNCHANGED <<inputs, pc, calls>>

\* traverse_internal(&initial, ...); the root frame's result is dropped and
\* traverse_tree returns.
Finish ==
    /\ pc = "run"
    /\ stack = <<>>
    /\ pc' = "done"
    /\ ret' = "None"
    /\ UNCHANGED <<inputs, stack, calls>>

Next ==
    \/ CheckRoot
    \/ VisitNode
    \/ BranchNode
    \/ NextChild
    \/ ChildReturned
    \/ Finish

Spec == Init /\ [][Next]_vars

\* The single call stack runs on until traverse_tree returns: a step that can
\* be taken is taken.
FairSpec == Spec /\ WF_vars(Next)

----------------------------------------------------------------------------
(* A caller that runs one traversal after another, as the TreeControl doc   *)
(* test does: for &start in &root_nodes { traverse_tree(start, ...) }, the  *)
(* visitor pushing onto one vector for all of them.                         *)

\* let root_nodes = vec![0, 2, 4, 6, 8, 10]; for a generic tree, each of its
\* nodes in turn.
RootNodes ==
    IF kind = "evens" THEN <<0, 2, 4, 6, 8, 10>>
    ELSE [i \in 1..Len(branch) |-> i]

\* The place of the running traversal's root in root_nodes.
RootIdx == CHOOSE i \in DOMAIN RootNodes : RootNodes[i] = root

InitLoop ==
    /\ \/ \E k \in 1..MaxLoopSize : \E par \in Parents(k) :
            /\ WellFormed(k, par)
            /\ kind = "tree"
            /\ root = 1
            /\ branch = BranchOf(k, par)
            /\ cond \in [1..k -> BOOLEAN]
            /\ policy \in [1..k -> TreeControl]
       \/ /\ kind = "evens"
          /\ root = 0
          /\ branch = <<>>
          /\ cond = <<>>
          /\ policy = <<>>
    /\ pc = "start"
    /\ stack = <<>>
    /\ ret = "None"
    /\ calls = <<>>

\* The next turn of the caller's for loop: traverse_tree is called again.
NextCall ==
    /\ pc = "done"
    /\ RootIdx < Len(RootNodes)
    /\ root' = RootNodes[RootIdx + 1]
    /\ pc' = "start"
    /\ UNCHANGED <<kind, branch, cond, policy, stack, ret, calls>>

LoopNext ==
    \/ Next
    \/ NextCall

SpecLoop == InitLoop /\ [][LoopNext]_vars

----------------------------------------------------------------------------
(* A caller that runs the same traversal again: traverse_tree on the same   *)
(* root with the same condition, branch_fn and visit_fn.                    *)

\* Where in the history each traversal began: its condition(&initial) call.
\* The root of a generic tree is no node's child.
RunStarts == {k \in DOMAIN calls : calls[k].op = "condition" /\ calls[k].node = root}

Runs == Cardinality(RunStarts)

InitAgain ==
    /\ \E k \in 1..MaxLoopSize : \E par \in Parents(k) :
            /\ WellFormed(k, par)
            /\ kind = "tree"
            /\ root = 1
            /\ branch = BranchOf(k, par)
            /\ cond \in [1..k -> BOOLEAN]
            /\ policy \in [1..k -> TreeControl]
    /\ pc = "start"
    /\ stack = <<>>
    /\ ret = "None"
    /\ calls = <<>>

\* traverse_tree is called once more with the same arguments.
CallAgain ==
    /\ pc = "done"
    /\ Runs < MaxRuns
    /\ pc' = "start"
    /\ UNCHANGED <<inputs, stack, ret, calls>>

AgainNext ==
    \/ Next
    \/ CallAgain

SpecAgain == InitAgain /\ [][AgainNext]_vars

----------------------------------------------------------------------------
(* Node values that occur at several places.  T is any Clone type and       *)
(* branch_fn returns a Vec<T>: nothing keeps it from returning equal values *)
(* for different nodes, or twice for one node.  Here the values are 1..k    *)
(* and branch_fn(v) returns up to two values larger than v, so every walk   *)
(* is finite.                                                               *)

\* The lists of at most two elements of S.
UpToTwo(S) == {<<>>} \cup {<<a>> : a \in S} \cup {<<a, b>> : a, b \in S}

InitValues ==
    /\ \E k \in 1..MaxValues :
            /\ kind = "values"
            /\ root = 1
            /\ branch \in [1..k -> UpToTwo(1..k)]
            /\ \A v \in 1..k : \A i \in DOMAIN branch[v] : branch[v][i] > v
            /\ cond \in [1..k -> BOOLEAN]
            /\ policy \in [1..k -> TreeControl]
    /\ pc = "start"
    /\ stack = <<>>
    /\ ret = "None"
    /\ calls = <<>>

SpecValues == InitValues /\ [][Next]_vars

----------------------------------------------------------------------------
(* Callbacks that fail.  A caller's closure may panic instead of returning; *)
(* traverse_tree and traverse_internal hold no catch_unwind, so the panic   *)
(* unwinds every active frame and leaves traverse_tree.                     *)

\* The panic leaves through all frames: none is left, nothing is returned.
Unwind(callback, n) ==
    /\ calls' = Append(calls, Call("panic", n, callback))
    /\ pc' = "panicked"
    /\ stack' = <<>>
    /\ ret' = "None"
    /\ UNCHANGED inputs

\* condition(&initial) or condition(&child) panics.
PanicInCondition ==
    \/ /\ pc = "start"
       /\ Unwind("condition", root)
    \/ /\ pc = "run"
       /\ stack # <<>>
       /\ Top.at = "loop"
       /\ Top.i <= Len(Top.children)
       /\ Unwind("condition", Top.children[Top.i])

\* branch_fn(node) panics.
PanicInBranch ==
    /\ pc = "run"
    /\ stack # <<>>
    /\ Top.at = "branch"
    /\ Unwind("branch", Top.node)

\* PanicInVisit with the panic caught and the node taken as pruned.
PanicInVisit_Caught ==
    /\ pc = "run"
    /\ stack # <<>>
    /\ Top.at = "visit"
    /\ calls' = Append(calls, Call("panic", Top.node, "visit"))
    /\ Return("Continue")
    /\ UNCHANGED <<inputs, pc>>

\* visit_fn(node) panics.
PanicInVisit ==
    /\ pc = "run"
    /\ stack # <<>>
    /\ Top.at = "visit"
    /\ Unwind("visit", Top.node)

PanicNext ==
    \/ Next
    \/ PanicInCondition
    \/ PanicInBranch
    \/ PanicInVisit

SpecPanic == Init /\ [][PanicNext]_vars

----------------------------------------------------------------------------
(* for_tree!: one traverse_tree call whose visitor runs the body.  The      *)
(* tree is the doc example's, BinaryNode 10 with the children 5 and 15;     *)
(* policy holds the body that runs at each node.                            *)

InitForTree ==
    /\ kind = "for_tree"
    /\ root = 10
    /\ branch = <<>>
    /\ cond = <<>>
    /\ policy \in [{5, 10, 15} -> Bodies]
    /\ pc = "start"
    /\ stack = <<>>
    /\ ret = "None"
    /\ calls = <<>>

\* The statements of the running body that have been executed.
Executed(n) == Cardinality({k \in DOMAIN calls : calls[k].op = "effect" /\ calls[k].node = n})

\* The body stands at a prune!(), a break_tree!() or its end: the visitor returns.
BodyAtReturn ==
    /\ pc = "run"
    /\ stack # <<>>
    /\ Top.at = "visit"
    /\ LET at == Executed(Top.node) + 1 IN
        IF at > Len(policy[Top.node]) THEN TRUE
        ELSE policy[Top.node][at] # "push"

\* The body executes its next statement, one with a side effect.
BodyStep ==
    /\ pc = "run"
    /\ stack # <<>>
    /\ Top.at = "visit"
    /\ LET at == Executed(Top.node) + 1 IN
        /\ at <= Len(policy[Top.node])
        /\ policy[Top.node][at] = "push"
        /\ calls' = Append(calls, Call("effect", Top.node, at))
    /\ UNCHANGED <<inputs, pc, stack, ret>>

ForTreeNext ==
    \/ CheckRoot
    \/ BodyStep
    \/ BodyAtReturn /\ VisitNode
    \/ BranchNode
    \/ NextChild
    \/ ChildReturned
    \/ Finish

SpecForTree == InitForTree /\ [][ForTreeNext]_vars

----------------------------------------------------------------------------
(* traverse_fs of examples/filesystem.rs: for_tree! over an FsNode tree,    *)
(* the body printing the node behind an indent of indent_level, adding one  *)
(* to indent_level and binding an IndentGuard whose drop subtracts one.     *)
(* The statements of the body are steps of their own, recorded in the       *)
(* history with the value of indent_level they use or leave.                *)

\* create_sample_fs(): root(documents(report.docx, data.xlsx, drafts(draft1.txt,
\* draft2.txt)), pictures(vacation.jpg, portrait.png), config.cfg), the nodes
\* numbered in that order.
SampleFs == [n \in 1..11 |-> CASE n = 1 -> <<2, 8, 11>> [] n = 2 -> <<3, 4, 5>>
                                [] n = 5 -> <<6, 7>> [] n = 8 -> <<9, 10>>
                                [] OTHER -> <<>>]

InitFs ==
    /\ kind = "fs"
    /\ root = 1
    /\ \/ branch = SampleFs
       \/ \E k \in 1..MaxSize : \E par \in Parents(k) :
            /\ WellFormed(k, par)
            /\ branch = BranchOf(k, par)
    /\ cond = <<>>
    /\ policy = <<>>
    /\ pc = "start"
    /\ stack = <<>>
    /\ ret = "None"
    /\ calls = <<>>

\* The statement op of the body has run at node n.
Ran(op, n) == \E k \in DOMAIN calls : calls[k].op = op /\ calls[k].node = n

\* let mut indent_level = 0; one up per `indent_level += 1`, one down per
\* drop of an IndentGuard.
indent_level ==
    Cardinality({k \in DOMAIN calls : calls[k].op = "increment"})
    - Cardinality({k \in DOMAIN calls : calls[k].op = "drop"})

\* let indent = "  ".repeat(indent_level); println!("{}{}: ..", indent, ..)
PrintNode ==
    /\ pc = "run"
    /\ stack # <<>>
    /\ Top.at = "visit"
    /\ ~Ran("println", Top.node)
    /\ calls' = Append(calls, Call("println", Top.node, indent_level))
    /\ UNCHANGED <<inputs, pc, stack, ret>>

\* indent_level += 1;
IncrementIndent ==
    /\ pc = "run"
    /\ stack # <<>>
    /\ Top.at = "visit"
    /\ Ran("println", Top.node)
    /\ ~Ran("increment", Top.node)
    /\ calls' = Append(calls, Call("increment", Top.node, indent_level + 1))
    /\ UNCHANGED <<inputs, pc, stack, ret>>

\* let _guard = IndentGuard(&mut indent_level); is the body's last statement:
\* the block ends, _guard goes out of scope and drop runs `*self.0 -= 1`,
\* inside visit_fn, before the macro's TreeControl::Continue is returned.
DropGuard ==
    /\ pc = "run"
    /\ stack # <<>>
    /\ Top.at = "visit"
    /\ Ran("increment", Top.node)
    /\ ~Ran("drop", Top.node)
    /\ calls' = Append(calls, Call("drop", Top.node, indent_level - 1))
    /\ UNCHANGED <<inputs, pc, stack, ret>>

\* The body has run to its end: the visitor returns.
FsBodyEnd ==
    /\ pc = "run"
    /\ stack # <<>>
    /\ Top.at = "visit"
    /\ Ran("drop", Top.node)

FsNext ==
    \/ CheckRoot
    \/ PrintNode
    \/ IncrementIndent
    \/ DropGuard
    \/ FsBodyEnd /\ VisitNode
    \/ BranchNode
    \/ NextChild
    \/ ChildReturned
    \/ Finish

SpecFs == InitFs /\ [][FsNext]_vars

----------------------------------------------------------------------------
(* MCTS::search of examples/monte_carlo_tree_search.rs: each iteration runs *)
(* selection, a for_tree! walk that pushes (index, visits) pairs onto path, *)
(* then follows path from the root to a node and expands it.  The visit     *)
(* counts and rewards only feed best_child and are left out.                *)

\* A game: the states 1..k with their valid moves and terminal flags; a state
\* without moves is terminal (TicTacToe: the board is full).
InitMcts ==
    /\ kind = "mcts"
    /\ root = 1
    /\ \E k \in 1..MaxSize : \E par \in Parents(k) : \E term \in [1..k -> BOOLEAN] :
            /\ WellFormed(k, par)
            /\ \A n \in 1..k : BranchOf(k, par)[n] = <<>> => term[n]
            /\ policy = [n \in 1..k |-> [moves |-> BranchOf(k, par)[n], terminal |-> term[n]]]
            /\ branch = [n \in 1..k |-> <<>>]
            /\ cond = [n \in 1..k |-> 1]
    /\ pc = "select"
    /\ stack = <<>>
    /\ ret = "None"
    /\ calls = <<>>

\* let mut path = Vec::new(); path.push((0, self.root.visits)); and what
\* best_child will find in this selection.
StartSelection ==
    /\ pc = "select"
    /\ calls' = <<Call("push_root", root, 0)>>
    /\ cond' \in [DOMAIN branch -> 1..MaxSize]
    /\ \A n \in DOMAIN branch :
        IF branch[n] = <<>> THEN cond'[n] = 1 ELSE cond'[n] \in DOMAIN branch[n]
    /\ pc' = "start"
    /\ UNCHANGED <<kind, root, branch, policy, stack, ret>>

\* The index the pair node_data carries: 0 for the root, best_child_idx (from
\* 0) for a child, as branch_fn built the pair.
PairIdx ==
    IF Len(stack) = 1 THEN 0 ELSE best_child(stack[Len(stack) - 1].node) - 1

\* let (idx, node) = *node_data; path.push((idx, node.visits));
PushPath ==
    /\ pc = "run"
    /\ stack # <<>>
    /\ Top.at = "visit"
    /\ ~\E k \in DOMAIN calls : calls[k].op = "push" /\ calls[k].node = Top.node
    /\ calls' = Append(calls, Call("push", Top.node, PairIdx))
    /\ UNCHANGED <<inputs, pc, stack, ret>>

\* The body has pushed: its two tests decide what the visitor returns.
PathPushed ==
    /\ pc = "run"
    /\ stack # <<>>
    /\ Top.at = "visit"
    /\ \E k \in DOMAIN calls : calls[k].op = "push" /\ calls[k].node = Top.node

\* The entries of path: the child indices, in push order.
path ==
    LET pushes == SelectSeq(calls, LAMBDA c : c.op \in {"push_root", "push"})
    IN  [i \in DOMAIN pushes |-> pushes[i].res]

RECURSIVE Navigate(_, _)
\* for &(idx, _) in selected_path.iter().skip(1) { current_node = &mut
\* current_node.children[idx]; } from entry i on; 0 when an index is out of
\* bounds.
Navigate(current_node, i) ==
    IF i > Len(path) THEN current_node
    ELSE IF path[i] + 1 > Len(branch[current_node]) THEN 0
    ELSE Navigate(branch[current_node][path[i] + 1], i + 1)

\* The rest of the iteration: navigate to the selected node and expand it
\* when it is neither fully expanded nor terminal (the simulation and the
\* backpropagation change visits and rewards only).
Expansion ==
    /\ pc = "done"
    /\ LET current_node == Navigate(root, 2) IN
        IF current_node = 0
        THEN /\ calls' = Append(calls, Call("panic", root, "index out of bounds"))
             /\ pc' = "panicked"
             /\ branch' = branch
        ELSE /\ calls' = Append(calls, Call("expand", current_node, path))
             /\ pc' = "select"
             /\ branch' =
                    IF ~is_fully_expanded(current_node) /\ ~policy[current_node].terminal
                    THEN [branch EXCEPT ![current_node] =
                            Append(@, unexpanded_moves(current_node)[Len(unexpanded_moves(current_node))])]
                    ELSE branch
    /\ UNCHANGED <<kind, root, cond, policy, stack, ret>>

MctsNext ==
    \/ StartSelection
    \/ CheckRoot
    \/ PushPath
    \/ PathPushed /\ VisitNode
    \/ BranchNode
    \/ NextChild
    \/ ChildReturned
    \/ Finish
    \/ Expansion

SpecMcts == InitMcts /\ [][MctsNext]_vars

----------------------------------------------------------------------------
(* What the history shows.                                                 *)

Range(f) == {f[i] : i \in DOMAIN f}

Last(s) == s[Len(s)]

CallsOf(op) == SelectSeq(calls, LAMBDA c : c.op = op)

VisitCalls == CallsOf("visit")

BranchCalls == CallsOf("branch")

ConditionCalls == CallsOf("condition")

\* The nodes visit_fn was called on, in call order.
Visited == [i \in DOMAIN VisitCalls |-> VisitCalls[i].node]

Count(s, x) == Cardinality({i \in DOMAIN s : s[i] = x})

IndexOf(s, x) == CHOOSE i \in DOMAIN s : s[i] = x

\* The visit calls that returned Break.
BreakIdx == {i \in DOMAIN VisitCalls : VisitCalls[i].res = "Break"}

Done == pc = "done"

----------------------------------------------------------------------------
(* Reference sequences, computed from the caller's closures alone.         *)

RECURSIVE TreeOrder(_), TreeOrderList(_, _)
\* Depth-first pre-order of the whole tree under n, children in branch order.
TreeOrder(n) == <<n>> \o TreeOrderList(BranchFn(n), 1)

TreeOrderList(cs, i) ==
    IF i > Len(cs) THEN <<>>
    ELSE TreeOrder(cs[i]) \o TreeOrderList(cs, i + 1)

RECURSIVE RefPre(_, _), RefPreList(_, _, _)
\* Pre(n): <n> if visit(n) is Prune, otherwise <n> followed by Pre(c) for each
\* child c with condition(c), in branch order.  The nodes in ov are taken as
\* if their visit had returned Continue.
RefPre(ov, n) ==
    IF n \notin ov /\ VisitFn(n) = "Prune" THEN <<n>>
    ELSE <<n>> \o RefPreList(ov, BranchFn(n), 1)

RefPreList(ov, cs, i) ==
    IF i > Len(cs) THEN <<>>
    ELSE (IF Condition(cs[i]) THEN RefPre(ov, cs[i]) ELSE <<>>)
         \o RefPreList(ov, cs, i + 1)

Pre(n) == RefPre({}, n)

\* s without the elements of the set X, order kept.
Without(s, X) == SelectSeq(s, LAMBDA x : x \notin X)

IsPrefix(s, t) == Len(s) <= Len(t) /\ s = SubSeq(t, 1, Len(s))

AllEligible == \A n \in DOMAIN branch : cond[n]

AllContinue == \A n \in DOMAIN branch : policy[n] = "Continue"

----------------------------------------------------------------------------
(* C1: on a finite tree whose nodes all satisfy condition and whose visitor *)
(* always returns Continue, the finished traversal has called visit on      *)
(* every node exactly once, in the depth-first pre-order of the tree with   *)
(* children in branch order (test_binary_tree: 1, 2, 4, 5, 3, 6).           *)
C1_FullPreOrder ==
    (Done /\ kind = "tree" /\ AllEligible /\ AllContinue) =>
        /\ Visited = TreeOrder(root)
        /\ \A n \in DOMAIN branch : Count(Visited, n) = 1
        /\ branch = TestTree => Visited = <<1, 2, 4, 5, 3, 6>>

C1_Witness ==
    /\ Done /\ kind = "tree" /\ AllEligible /\ AllContinue
    /\ Len(Visited) >= 4
    /\ \E n \in DOMAIN branch : Len(branch[n]) >= 2
    /\ \E n \in DOMAIN branch : n # root /\ branch[n] # <<>>

(* C2: when visit returns Break at node N, N is the last node visited and   *)
(* the visit sequence is the prefix, ending at N, of the sequence the walk  *)
(* produces without that Break; the chain 0, 1, 2, ... breaking at n >= 5   *)
(* makes exactly the six visits 0..5.                                       *)
C2_BreakTruncates ==
    /\ BreakIdx # {} =>
        /\ BreakIdx = {Len(Visited)}
        /\ IsPrefix(Visited, RefPre({Last(Visited)}, root))
    /\ (Done /\ kind = "chain") => Visited = <<0, 1, 2, 3, 4, 5>>

C2_Witness ==
    /\ Done /\ kind = "tree" /\ BreakIdx # {}
    /\ LET full == RefPre({Last(Visited)}, root) IN
        /\ Len(Visited) < Len(full)
        /\ Last(Visited) # root
        /\ Last(Visited) \notin Range(branch[root])
        /\ Last(full) \in Range(branch[root])

(* C5: if condition(root) is false the traversal makes that one condition   *)
(* call and nothing else: no visit, no branch, and it has returned.         *)
C5_RootRejected ==
    (calls # <<>> /\ ~Condition(root)) =>
        /\ Done
        /\ stack = <<>>
        /\ calls = <<Call("condition", root, FALSE)>>

C5_Witness ==
    /\ Done /\ ~Condition(root)
    /\ kind = "tree" /\ branch[root] # <<>>
    /\ \E c \in Range(branch[root]) : cond[c]

(* C7: within one traversal visit is called at most once on any node,       *)
(* whatever mixture of Continue, Prune and Break the visitor returns.       *)
C7_VisitAtMostOnce ==
    \A i, j \in DOMAIN Visited : Visited[i] = Visited[j] => i = j

C7_Witness ==
    /\ Done /\ kind = "tree" /\ Len(Visited) >= 3
    /\ \E i, j, k \in DOMAIN VisitCalls :
        /\ VisitCalls[i].res = "Continue"
        /\ VisitCalls[j].res = "Prune"
        /\ VisitCalls[k].res = "Break"

(* C4: once visit has returned Break, no callback is called again; every    *)
(* step pops one enclosing frame, which itself returns Break, until the     *)
(* stack is empty and traverse_tree returns.                                *)
C4_BreakUnwinds ==
    /\ [](BreakIdx # {} /\ pc = "run" => ret = "Break")
    /\ [][BreakIdx # {} =>
            /\ calls' = calls
            /\ IF stack = <<>>
               THEN pc' = "done" /\ stack' = <<>>
               ELSE pc' = "run" /\ stack' = Pop /\ ret' = "Break"]_vars

C4_Witness ==
    /\ pc = "run" /\ kind = "tree" /\ ret = "Break"
    /\ Len(stack) = 1
    /\ Last(Visited) \notin Range(branch[root])
    /\ Top.i < Len(Top.children)
    /\ cond[Top.children[Top.i + 1]]

\* The visit calls that returned Prune.
PruneIdx == {i \in DOMAIN VisitCalls : VisitCalls[i].res = "Prune"}

NoBreakIn(s) == \A i \in DOMAIN s : VisitFn(s[i]) # "Break"

(* C3: when visit returns Prune at N, no descendant of N is ever visited;   *)
(* and when no Break occurs, the finished visit sequence is the sequence    *)
(* the walk produces without that Prune, less N's descendants: N, its       *)
(* siblings and every node outside N's subtree are visited in the same      *)
(* relative order (test_prune: 1, 2, 3, 6).                                 *)
C3_PruneExcludesSubtree ==
    \A i \in PruneIdx :
        LET N == Visited[i]
            unpruned == RefPre({N}, root)
            below == Range(Tail(RefPre({N}, N)))
        IN  /\ kind = "tree" =>
                Range(Tail(TreeOrder(N))) \cap Range(Visited) = {}
            /\ (Done /\ NoBreakIn(unpruned)) =>
                /\ Visited = Without(unpruned, below)
                /\ N \in Range(Visited)
            /\ (Done /\ kind = "tree" /\ branch = TestTree) =>
                Visited = <<1, 2, 3, 6>>

C3_Witness ==
    /\ Done /\ kind = "tree" /\ branch # TestTree
    /\ \E i \in PruneIdx :
        LET N == Visited[i] IN
        /\ NoBreakIn(RefPre({N}, root))
        /\ Tail(RefPre({N}, N)) # <<>>
        /\ \E p \in DOMAIN branch : \E a, b \in DOMAIN branch[p] :
            /\ a < b
            /\ branch[p][a] = N
            /\ branch[p][b] \in Range(Visited)

\* The visited nodes reachable from the nodes of S through branch_fn.
RECURSIVE Reach(_)
Reach(S) ==
    LET T == S \cup {c \in Range(Visited) : \E q \in S : c \in Range(BranchFn(q))}
    IN  IF T = S THEN S ELSE Reach(T)

(* C6: a parent is visited before any of its descendants, and of two        *)
(* visited children of one branch call the earlier one's whole subtree is   *)
(* visited before the later one: children go in branch order, each subtree  *)
(* to completion.                                                           *)
C6_BranchOrder ==
    \A k \in DOMAIN BranchCalls :
        LET p == BranchCalls[k].node
            cs == BranchCalls[k].res
        IN  /\ p \in Range(Visited)
            /\ \A m \in Reach({p}) \ {p} : IndexOf(Visited, p) < IndexOf(Visited, m)
            /\ \A i, j \in DOMAIN cs :
                (i < j /\ cs[i] \in Range(Visited) /\ cs[j] \in Range(Visited)) =>
                    \A m \in Reach({cs[i]}) :
                        IndexOf(Visited, m) < IndexOf(Visited, cs[j])

C6_Witness ==
    /\ Done /\ kind = "tree"
    /\ \E k \in DOMAIN BranchCalls :
        LET cs == BranchCalls[k].res IN
        /\ Len(cs) >= 2
        /\ cs[1] \in Range(Visited)
        /\ cs[2] \in Range(Visited)
        /\ Cardinality(Reach({cs[1]})) >= 2

\* The root and every child some branch call returned.
Produced == {root} \cup UNION {Range(BranchCalls[k].res) : k \in DOMAIN BranchCalls}

Checked == {ConditionCalls[k].node : k \in DOMAIN ConditionCalls}

(* C8 as stated: of the root and the children branch produced, a node is    *)
(* visited if and only if it satisfies condition.                           *)
C8_VisitedIffEligible ==
    Done => \A n \in Produced : n \in Range(Visited) <=> Condition(n)

(* C8, amended: of the root and the children branch produced, a node is     *)
(* visited if and only if it satisfies condition and the walk reached it    *)
(* (its condition was checked); unless a Break ended the walk, every such   *)
(* node is reached, and then visited if and only if it satisfies condition. *)
C8_VisitedIffEligibleReached ==
    Done =>
        /\ \A n \in Produced :
            n \in Range(Visited) <=> (Condition(n) /\ n \in Checked)
        /\ BreakIdx = {} => Produced = Checked

C8_Witness ==
    /\ Done /\ kind = "tree" /\ BreakIdx = {}
    /\ \E n \in Produced : ~cond[n]
    /\ \E n \in Produced \ {root} : cond[n] /\ n \in Range(Visited)

IsVisit(c, r) == c.op = "visit" /\ c.res = r

(* C9: every branch call directly follows a visit of the same node that     *)
(* returned Continue, every such visit is directly followed by that one     *)
(* branch call, and no node is branched twice; so branch is never called    *)
(* on a node whose visit returned Prune or Break or that failed condition.  *)
(* A Prune makes the frame return Continue to its caller, which goes on     *)
(* with the next sibling (or, for the root, traverse_tree returns).         *)
C9_BranchAfterContinue ==
    /\ [](\A k \in DOMAIN calls :
            /\ calls[k].op = "branch" =>
                /\ k > 1
                /\ calls[k - 1] = Call("visit", calls[k].node, "Continue")
                /\ VisitFn(calls[k].node) = "Continue"
                /\ Condition(calls[k].node)
                /\ \A j \in DOMAIN calls :
                    (calls[j].op = "branch" /\ calls[j].node = calls[k].node) => j = k
            /\ IsVisit(calls[k], "Continue") =>
                IF k < Len(calls)
                THEN calls[k + 1] = Call("branch", calls[k].node, BranchFn(calls[k].node))
                ELSE pc = "run" /\ Top.at = "branch")
    /\ [][(calls' # calls /\ IsVisit(Last(calls'), "Prune")) =>
            stack' = Pop /\ ret' = "Continue"]_vars
    /\ [][(pc = "run" /\ ret = "Continue") =>
            /\ calls' = calls
            /\ IF stack = <<>>
               THEN pc' = "done"
               ELSE /\ stack' = SetTop([Top EXCEPT !.at = "loop", !.i = Top.i + 1])
                    /\ ret' = "None"]_vars

C9_Witness ==
    /\ Done /\ kind = "tree"
    /\ Len(BranchCalls) >= 2
    /\ \E i \in PruneIdx : branch[Visited[i]] # <<>> /\ i < Len(Visited)

(* C10 as stated: with a visitor that never breaks, the visit sequence is   *)
(* Pre(root).                                                               *)
C10_EqualsPre ==
    (Done /\ NoBreakIn(Pre(root))) => Visited = Pre(root)

(* C10, amended: with a visitor that never breaks and a root that satisfies *)
(* condition, the visit sequence is Pre(root); when the root fails          *)
(* condition it is empty.  Root 1, branch <<2n, 2n+1>>, condition n < 8,    *)
(* prune on even n gives 1, 2, 3, 6, 7; the strings over {a, b} of length   *)
(* <= 2, pruned at length 2, come as "", a, aa, ab, b, ba, bb.              *)
C10_EqualsPreFromEligibleRoot ==
    Done =>
        /\ (Condition(root) /\ NoBreakIn(Pre(root))) => Visited = Pre(root)
        /\ ~Condition(root) => Visited = <<>>
        /\ (kind = "heap" /\ root = 1) => Visited = <<1, 2, 3, 6, 7>>
        /\ kind = "strings" =>
            Visited = << <<>>, <<"a">>, <<"a", "a">>, <<"a", "b">>,
                         <<"b">>, <<"b", "a">>, <<"b", "b">> >>

C10_Witness ==
    /\ Done /\ kind = "tree" /\ cond[root] /\ NoBreakIn(Pre(root))
    /\ PruneIdx # {}
    /\ \E n \in Produced : ~cond[n]
    /\ Len(Visited) >= 3

(* C11: a visited node for which branch returns no children is a leaf: it   *)
(* is visited once, its frame makes no further callback call and returns    *)
(* Continue, and the next call, if any, is the condition check of a child   *)
(* that an earlier branch call produced.                                    *)
C11_LeafMovesOn ==
    /\ [](\A k \in DOMAIN calls :
            (calls[k].op = "branch" /\ calls[k].res = <<>>) =>
                /\ Count(Visited, calls[k].node) = 1
                /\ k < Len(calls) =>
                    /\ calls[k + 1].op = "condition"
                    /\ calls[k + 1].node # calls[k].node
                    /\ \E j \in 1..(k - 1) :
                        /\ calls[j].op = "branch"
                        /\ calls[k + 1].node \in Range(calls[j].res))
    /\ [][(pc = "run" /\ stack # <<>> /\ Top.at = "loop" /\ Top.children = <<>>) =>
            /\ calls' = calls
            /\ stack' = Pop
            /\ ret' = "Continue"]_vars

C11_Witness ==
    /\ Done /\ kind = "tree"
    /\ \E k \in DOMAIN calls :
        /\ calls[k].op = "branch"
        /\ calls[k].res = <<>>
        /\ k < Len(calls)
        /\ calls[k + 1].op = "condition"
        /\ calls[k + 1].res

\* condition holds for the root and for none of the children its branch returns.
OnlyRootEligible ==
    /\ Condition(root)
    /\ \A c \in Range(BranchFn(root)) : ~Condition(c)

(* C12: when condition holds for the root and for none of the children the  *)
(* root's branch produces, the finished traversal has made exactly one      *)
(* visit, of the root, whatever that visit returned.                        *)
C12_SingleVisit ==
    (Done /\ OnlyRootEligible) => Visited = <<root>>

C12_Witness ==
    /\ Done /\ kind = "tree" /\ OnlyRootEligible
    /\ policy[root] = "Continue"
    /\ Len(branch[root]) >= 2
    /\ \E c \in Range(branch[root]) : \E g \in Range(branch[c]) : cond[g]

\* Every child of every node whose visit returned Continue has had its
\* condition checked.
AllProcessed ==
    \A k \in DOMAIN VisitCalls :
        VisitCalls[k].res = "Continue" =>
            Range(BranchFn(VisitCalls[k].node)) \subseteq Checked

(* C13: on a finite tree traverse_tree terminates, and no state short of    *)
(* its return is stuck; it returns either with every child of every         *)
(* continued node processed and no Break, or right after a Break, the       *)
(* breaking visit being the last callback call.                             *)
C13_Terminates ==
    /\ <>Done
    /\ [](Done \/ ENABLED Next)
    /\ [](Done =>
            IF BreakIdx = {} THEN AllProcessed
            ELSE IsVisit(Last(calls), "Break"))

C13_Witness ==
    /\ Done /\ kind = "tree" /\ BreakIdx = {}
    /\ Len(Visited) >= 4
    /\ PruneIdx # {}

\* s up to and including its first node whose visit returns Break.
UpToBreak(s) ==
    LET B == {i \in DOMAIN s : VisitFn(s[i]) = "Break"}
    IN  IF B = {} THEN s
        ELSE SubSeq(s, 1, CHOOSE i \in B : \A j \in B : i <= j)

\* The visits of one traversal from r, from its own arguments alone.
Expected(r) == IF Condition(r) THEN UpToBreak(Pre(r)) ELSE <<>>

RECURSIVE ExpectedUpTo(_)
\* The visits of the traversals from the first i roots of root_nodes.
ExpectedUpTo(i) ==
    IF i = 0 THEN <<>> ELSE ExpectedUpTo(i - 1) \o Expected(RootNodes[i])

Panicked == pc = "panicked"

(* C15: when condition, branch or visit panics, the panic leaves            *)
(* traverse_tree: the failing call is the last callback call, no frame      *)
(* stays, and the engine takes no step afterwards (no recovery, no normal   *)
(* return).                                                                 *)
C15_PanicPropagates ==
    /\ [](\A k \in DOMAIN calls :
            calls[k].op = "panic" => (k = Len(calls) /\ Panicked))
    /\ [](Panicked => (stack = <<>> /\ Last(calls).op = "panic"))
    /\ [][Panicked => UNCHANGED vars]_vars

C15_Witness ==
    /\ Panicked /\ kind = "tree"
    /\ Last(calls).res = "visit"
    /\ Len(Visited) >= 2
    /\ Last(calls).node \notin Range(branch[root])
    /\ \E c \in Range(branch[root]) : cond[c] /\ c \notin Checked

(* C16: no step of a traversal changes the root, a node or the shape of     *)
(* the tree; every node handed to a callback is the root or a child some    *)
(* branch call returned; and when traverse_tree has returned nothing of     *)
(* the engine is left (no frame, no result): only the history the           *)
(* callbacks wrote differs.                                                 *)
C16_InputsUntouched ==
    /\ [][inputs' = inputs]_vars
    /\ [](\A k \in DOMAIN calls : calls[k].node \in Produced)
    /\ [](Done => (stack = <<>> /\ ret = "None"))

C16_Witness ==
    /\ Done /\ kind = "tree"
    /\ Len(BranchCalls) >= 2
    /\ Len(Visited) >= 3

\* s from its last element to its first.
Reverse(s) == [i \in 1..Len(s) |-> s[Len(s) + 1 - i]]

\* The children that satisfy condition, order kept.
Eligible(cs) == SelectSeq(cs, Condition)

RECURSIVE IterWalk(_, _)
\* The explicit-stack walker: todo holds the nodes still to visit, the next
\* one last; seen is the visit sequence so far.
IterWalk(todo, seen) ==
    IF todo = <<>> THEN seen
    ELSE LET n == Last(todo)
             rest == SubSeq(todo, 1, Len(todo) - 1)
             signal == VisitFn(n)
         IN  CASE signal = "Break"    -> Append(seen, n)
               [] signal = "Prune"    -> IterWalk(rest, Append(seen, n))
               [] signal = "Continue" ->
                    IterWalk(rest \o Reverse(Eligible(BranchFn(n))), Append(seen, n))

IterVisits == IF Condition(root) THEN IterWalk(<<root>>, <<>>) ELSE <<>>

(* C17: the explicit-stack walker, given the same root, condition, branch   *)
(* and visitor, makes the same visit calls in the same order as the         *)
(* recursive traverse_tree: at every moment the recursive visits are a      *)
(* prefix of the walker's, and on return they are equal, so every Prune     *)
(* and Break has the same effect in both.                                   *)
C17_IterativeAgrees ==
    /\ IsPrefix(Visited, IterVisits)
    /\ Done => Visited = IterVisits

C17_Witness ==
    /\ Done /\ kind = "tree"
    /\ PruneIdx # {} /\ BreakIdx # {}
    /\ Len(Visited) >= 3
    /\ \E k \in DOMAIN BranchCalls : Len(Eligible(BranchCalls[k].res)) >= 2

\* The node whose branch returns n.
ParentOf(n) == CHOOSE p \in DOMAIN branch : n \in Range(branch[p])

RECURSIVE DepthOf(_)
\* The number of edges from the root to n.
DepthOf(n) == IF n = root THEN 0 ELSE 1 + DepthOf(ParentOf(n))

\* The depth of the tree: the largest depth of a node.
TreeDepth ==
    LET D == {DepthOf(n) : n \in DOMAIN branch}
    IN  CHOOSE d \in D : \A e \in D : e <= d

(* C18: the active frames are the path from the root to the node being      *)
(* processed: the first frame is the root's, every other frame's node is    *)
(* the child, returned by branch, at which the frame below it waits; so     *)
(* there are as many frames below the top one as the node is deep, never    *)
(* more than the depth of the tree.                                         *)
C18_StackIsPath ==
    stack # <<>> =>
        /\ stack[1].node = root
        /\ \A d \in 2..Len(stack) :
            LET below == stack[d - 1] IN
            /\ below.at = "call"
            /\ below.children = BranchFn(below.node)
            /\ below.i \in DOMAIN below.children
            /\ stack[d].node = below.children[below.i]
        /\ kind = "tree" =>
            /\ Len(stack) - 1 = DepthOf(Top.node)
            /\ Len(stack) - 1 <= TreeDepth

C18_Witness ==
    /\ pc = "run" /\ kind = "tree"
    /\ Len(stack) = 3
    /\ Top.at = "visit"
    /\ stack[1].i >= 2

\* n has been visited and its frame has returned.
Finished(n) ==
    /\ n \in Range(Visited)
    /\ \A d \in DOMAIN stack : stack[d].node # n

(* C19: once the frame of a node has returned, no step passes that node to  *)
(* condition, branch or visit again.                                        *)
C19_NoCallAfterReturn ==
    [][calls' # calls => ~Finished(Last(calls').node)]_vars

C19_Witness ==
    /\ pc = "run" /\ kind = "tree"
    /\ \E i \in DOMAIN Visited :
        /\ Finished(Visited[i])
        /\ VisitCalls[i].res = "Continue"
        /\ i < Len(Visited)
        /\ Last(calls).op = "visit"

\* The places of the prune!() and break_tree!() statements of a body.
Controls(body) == {i \in DOMAIN body : body[i] # "push"}

\* The first of them.
FirstControl(body) == CHOOSE i \in Controls(body) : \A j \in Controls(body) : i <= j

(* C20: the visitor for_tree! builds returns Continue when the body runs to *)
(* its end, Prune when it executes prune!() and Break when it executes      *)
(* break_tree!(); the statements before that point have run, their effects  *)
(* stay in the history ahead of the visit, and none after it runs; a        *)
(* pruned or breaking node is a visited node.                               *)
C20_ForTreeVisitor ==
    /\ \A k \in DOMAIN calls :
        calls[k].op = "visit" =>
            LET n == calls[k].node
                body == policy[n]
                ran == {j \in 1..(k - 1) : calls[j].op = "effect" /\ calls[j].node = n}
            IN  /\ Executed(n) = Cardinality(ran)
                /\ IF Controls(body) = {}
                   THEN calls[k].res = "Continue" /\ Executed(n) = Len(body)
                   ELSE /\ Executed(n) = FirstControl(body) - 1
                        /\ body[FirstControl(body)] = "prune" => calls[k].res = "Prune"
                        /\ body[FirstControl(body)] = "break_tree" => calls[k].res = "Break"
    /\ \A k \in DOMAIN calls :
        calls[k].op = "effect" => policy[calls[k].node][calls[k].res] = "push"
    /\ Done => Visited = Expected(root)

C20_Witness ==
    /\ Done /\ kind = "for_tree"
    /\ \E i, j \in DOMAIN VisitCalls :
        /\ VisitCalls[i].res = "Prune"
        /\ Executed(VisitCalls[i].node) >= 1
        /\ VisitCalls[j].res = "Break"
        /\ Len(policy[VisitCalls[j].node]) > Executed(VisitCalls[j].node) + 1

RECURSIVE RefLeaf(_, _), RefLeafList(_, _, _)
\* The visits under n of a walk in which visit returns Continue at N and
\* branch returns no children for N; every other node as the caller has it.
RefLeaf(N, n) ==
    LET result == IF n = N THEN "Continue" ELSE VisitFn(n)
        children == IF n = N THEN <<>> ELSE BranchFn(n)
    IN  IF result = "Prune" THEN <<n>>
        ELSE <<n>> \o RefLeafList(N, children, 1)

RefLeafList(N, cs, i) ==
    IF i > Len(cs) THEN <<>>
    ELSE (IF Condition(cs[i]) THEN RefLeaf(N, cs[i]) ELSE <<>>)
         \o RefLeafList(N, cs, i + 1)

(* C21: Prune is local.  A frame never reports Prune to its caller; right   *)
(* after visit returned Prune at N the frame of N is gone and what its      *)
(* caller sees is Continue, never Break; and the finished visit sequence is *)
(* the one of a walk where visit returns Continue at N and branch(N) is     *)
(* empty (up to the first Break): every later sibling of N and every        *)
(* remaining child of an ancestor is still checked and, if eligible,        *)
(* visited.                                                                 *)
C21_PruneIsLocal ==
    /\ ret \in {"None", "Continue", "Break"}
    /\ (calls # <<>> /\ IsVisit(Last(calls), "Prune")) =>
        /\ ret # "Break"
        /\ \A d \in DOMAIN stack : stack[d].node # Last(calls).node
        /\ pc = "run" => (ret = "Continue" \/ (stack # <<>> /\ Top.at = "loop"))
    /\ \A i \in PruneIdx :
        LET N == Visited[i] IN
        /\ IsPrefix(Visited, UpToBreak(RefLeaf(N, root)))
        /\ Done => Visited = UpToBreak(RefLeaf(N, root))
        /\ (Done /\ BreakIdx = {}) =>
            \A k \in DOMAIN BranchCalls : Range(BranchCalls[k].res) \subseteq Checked

C21_Witness ==
    /\ Done /\ kind = "tree" /\ BreakIdx = {}
    /\ \E i \in PruneIdx :
        LET N == Visited[i] IN
        /\ N # root
        /\ \E c \in Range(branch[N]) : cond[c]
        /\ \E p \in DOMAIN branch : \E a, b \in DOMAIN branch[p] :
            /\ a < b
            /\ branch[p][a] = N
            /\ branch[p][b] \in Range(Visited)

\* The place in the history where the j-th traversal began.
RunStart(j) == CHOOSE k \in RunStarts : Cardinality({m \in RunStarts : m <= k}) = j

\* The callback calls of the j-th traversal, in order.
RunCalls(j) ==
    SubSeq(calls, RunStart(j), IF j < Runs THEN RunStart(j + 1) - 1 ELSE Len(calls))

(* C22: traversals run on the same root with the same condition, branch and *)
(* visit make the same condition, branch and visit calls, with the same     *)
(* results, in the same order; and every result the engine acts on is that  *)
(* of a call made in that very step: a frame is entered only on a fresh     *)
(* true condition call of that node, a visit decides only in the step that  *)
(* calls visit, and the children a frame loops over are those of the branch *)
(* call of that step.                                                       *)
C22_Deterministic ==
    /\ [](\A j \in 1..Runs :
            /\ IsPrefix(RunCalls(j), RunCalls(1))
            /\ (j < Runs \/ Done) => RunCalls(j) = RunCalls(1))
    /\ [][IF pc = "start" /\ pc' = "run"
          THEN calls' = Append(calls, Call("condition", root, TRUE))
          ELSE IF pc = "run" /\ stack # <<>> /\ stack' # stack
          THEN CASE Len(stack') > Len(stack) ->
                        calls' = Append(calls, Call("condition", Last(stack').node, TRUE))
                 [] Len(stack') <= Len(stack) /\ Top.at = "visit" ->
                        /\ calls' = Append(calls, Call("visit", Top.node, VisitFn(Top.node)))
                        /\ Len(stack') = Len(stack) <=> Last(calls').res = "Continue"
                 [] Len(stack') <= Len(stack) /\ Top.at = "branch" ->
                        calls' = Append(calls, Call("branch", Top.node, Last(stack').children))
                 [] OTHER -> TRUE
          ELSE TRUE]_vars

C22_Witness ==
    /\ Done /\ Runs = 2
    /\ Len(RunCalls(2)) >= 6
    /\ PruneIdx # {} /\ BreakIdx # {}

\* The places in the history where condition was called on n.
ConditionIdx(n) == {k \in DOMAIN calls : calls[k].op = "condition" /\ calls[k].node = n}

(* C23 as stated: when the traversal has returned, condition has been       *)
(* evaluated exactly once on the root and exactly once on every child that  *)
(* a branch call produced.                                                  *)
C23_ConditionExactlyOnce ==
    Done => \A n \in Produced : Cardinality(ConditionIdx(n)) = 1

(* C23, amended: condition is called on the root as the very first callback *)
(* call, and only then; on a child only after the branch call that produced *)
(* it, and at most once; every visit of a node comes after the one          *)
(* condition call of that node, which returned true; and when the walk ends *)
(* without a Break every produced child has been checked exactly once.      *)
C23_ConditionOnce ==
    /\ calls # <<>> => calls[1] = Call("condition", root, Condition(root))
    /\ \A k \in DOMAIN calls :
        /\ calls[k].op = "condition" =>
            /\ ConditionIdx(calls[k].node) = {k}
            /\ calls[k].res = Condition(calls[k].node)
            /\ k > 1 => \E j \in 1..(k - 1) :
                /\ calls[j].op = "branch"
                /\ calls[k].node \in Range(calls[j].res)
        /\ calls[k].op = "visit" =>
            \E j \in 1..(k - 1) : calls[j] = Call("condition", calls[k].node, TRUE)
    /\ (Done /\ BreakIdx = {}) =>
        \A n \in Produced : Cardinality(ConditionIdx(n)) = 1

C23_Witness ==
    /\ Done /\ kind = "tree" /\ BreakIdx = {}
    /\ Len(ConditionCalls) >= 4
    /\ Len(Visited) >= 3
    /\ \E k \in DOMAIN calls : calls[k].op = "condition" /\ ~calls[k].res

\* The condition calls that returned true.
TrueConditions == {k \in DOMAIN calls : calls[k].op = "condition" /\ calls[k].res}

(* C24: a condition call that returns true is directly followed by the      *)
(* visit of the same node: no other callback call comes between, and while  *)
(* it is the last call a fresh frame of that node is about to call visit.   *)
(* So the visit calls are as many as the true condition results, or one     *)
(* fewer exactly while a visit is about to start, and as many when          *)
(* traverse_tree has returned.                                              *)
C24_TrueConditionThenVisit ==
    /\ \A k \in TrueConditions :
        IF k < Len(calls)
        THEN calls[k + 1].op = "visit" /\ calls[k + 1].node = calls[k].node
        ELSE /\ pc = "run"
             /\ stack # <<>>
             /\ Top = Frame(calls[k].node)
    /\ \A k \in DOMAIN calls :
        calls[k].op = "visit" => (k - 1) \in TrueConditions
    /\ IF pc = "run" /\ stack # <<>> /\ Top.at = "visit"
       THEN Len(VisitCalls) = Cardinality(TrueConditions) - 1
       ELSE Len(VisitCalls) = Cardinality(TrueConditions)
    /\ Done => Len(VisitCalls) = Cardinality(TrueConditions)

C24_Witness ==
    /\ pc = "run" /\ kind = "tree"
    /\ stack # <<>> /\ Top.at = "visit"
    /\ Len(VisitCalls) = 2
    /\ Cardinality(TrueConditions) = 3
    /\ \E k \in DOMAIN calls : calls[k].op = "condition" /\ ~calls[k].res

\* The nodes below n: those reached from n through branch, n itself left out.
Below(n) == Range(Tail(TreeOrder(n)))

(* C25: a node that fails condition cuts off its whole subtree: the failed  *)
(* check is the only callback call ever made on it (no visit, no branch, no *)
(* second check), and no callback at all is called on a node below it,      *)
(* whether or not that node would satisfy condition.                        *)
C25_IneligibleCutsSubtree ==
    \A k \in DOMAIN calls :
        (calls[k].op = "condition" /\ ~calls[k].res) =>
            \A j \in DOMAIN calls :
                /\ calls[j].node = calls[k].node => j = k
                /\ kind = "tree" => calls[j].node \notin Below(calls[k].node)

C25_Witness ==
    /\ Done /\ kind = "tree" /\ BreakIdx = {}
    /\ \E k \in DOMAIN calls :
        /\ calls[k].op = "condition" /\ ~calls[k].res
        /\ calls[k].node # root
        /\ \E d \in Below(calls[k].node) : cond[d]
        /\ k < Len(calls)

\* The place in the history of the condition call on n.
CondAt(n) == CHOOSE k \in ConditionIdx(n) : TRUE

\* n and the nodes below it.
Subtree(n) == Range(TreeOrder(n))

(* C26: the callbacks of one node come in a fixed order: visit(node), then  *)
(* directly the one branch(node) call, then directly condition on the first *)
(* child; condition on a later child comes after the condition call of the  *)
(* child before it, everything between the two is a call on a node of that  *)
(* earlier child's subtree, beginning with its visit if it is eligible, and *)
(* nothing of that subtree is called afterwards: children are checked one   *)
(* at a time, each when its turn comes, never in a pass over all of them.   *)
C26_CallbackOrder ==
    kind = "tree" =>
        \A b \in DOMAIN calls :
            calls[b].op = "branch" =>
                LET p == calls[b].node
                    cs == calls[b].res
                IN  /\ calls[b - 1] = Call("visit", p, "Continue")
                    /\ Cardinality({j \in DOMAIN calls : calls[j].op = "branch" /\ calls[j].node = p}) = 1
                    /\ (b < Len(calls) /\ cs # <<>>) =>
                        calls[b + 1] = Call("condition", cs[1], Condition(cs[1]))
                    /\ \A i \in DOMAIN cs :
                        ConditionIdx(cs[i]) # {} =>
                            LET a == CondAt(cs[i]) IN
                            /\ a > b
                            /\ (calls[a].res /\ a < Len(calls)) =>
                                (calls[a + 1].op = "visit" /\ calls[a + 1].node = cs[i])
                            /\ i > 1 =>
                                /\ ConditionIdx(cs[i - 1]) # {}
                                /\ CondAt(cs[i - 1]) < a
                                /\ \A m \in (CondAt(cs[i - 1]) + 1)..(a - 1) :
                                    calls[m].node \in Subtree(cs[i - 1])
                                /\ \A m \in a..Len(calls) :
                                    calls[m].node \notin Subtree(cs[i - 1])

C26_Witness ==
    /\ Done /\ kind = "tree"
    /\ \E b \in DOMAIN calls :
        /\ calls[b].op = "branch"
        /\ Len(calls[b].res) >= 2
        /\ ConditionIdx(calls[b].res[2]) # {}
        /\ Cardinality(Subtree(calls[b].res[1]) \cap Range(Visited)) >= 2

RECURSIVE Positions(_, _), PositionsList(_, _, _)
\* The number of eligible, non-pruned places at which the value v is
\* produced in the walk from a node of value n that is itself such a place.
Positions(n, v) ==
    (IF n = v THEN 1 ELSE 0)
    + (IF VisitFn(n) = "Continue" THEN PositionsList(BranchFn(n), 1, v) ELSE 0)

PositionsList(cs, i, v) ==
    IF i > Len(cs) THEN 0
    ELSE (IF Condition(cs[i]) THEN Positions(cs[i], v) ELSE 0)
         + PositionsList(cs, i + 1, v)

(* C27: the engine does not deduplicate: when branch produces equal values  *)
(* at several places, every place that passes condition and lies under no   *)
(* pruned or ineligible node is visited on its own.  So a value is visited  *)
(* as often as it is produced at such places (at most that often when a     *)
(* Break ends the walk), and a child's condition check that returns true is *)
(* followed by its visit even when an equal value was visited before.       *)
C27_NoDeduplication ==
    /\ Done =>
        \A v \in DOMAIN branch :
            LET places == IF Condition(root) THEN Positions(root, v) ELSE 0 IN
            IF BreakIdx = {}
            THEN Count(Visited, v) = places
            ELSE Count(Visited, v) <= places
    /\ \A k \in TrueConditions :
        k < Len(calls) => calls[k + 1].op = "visit" /\ calls[k + 1].node = calls[k].node
    /\ Done => Visited = Expected(root)

C27_Witness ==
    /\ Done /\ kind = "values" /\ BreakIdx = {}
    /\ \E v \in DOMAIN branch :
        /\ Count(Visited, v) = 2
        /\ \E j, k \in DOMAIN BranchCalls :
            /\ BranchCalls[j].node # BranchCalls[k].node
            /\ Count(BranchCalls[j].res, v) = 1
            /\ Count(BranchCalls[k].res, v) = 1

\* The println! calls of the body, in order.
Printed == CallsOf("println")

(* C28 as stated: in traverse_fs the indent level a node is printed with is *)
(* the node's depth in the tree, and the IndentGuard of a node takes its    *)
(* increment back only when all children of the node have been processed.   *)
C28_IndentIsDepth ==
    /\ \A k \in DOMAIN Printed : Printed[k].res = DepthOf(Printed[k].node)
    /\ \A k \in DOMAIN calls :
        calls[k].op = "drop" =>
            \A c \in Range(branch[calls[k].node]) : Ran("println", c)

(* What traverse_fs does: the guard is dropped before the visitor returns,  *)
(* so every node is printed with indent level 0.                            *)
C28_IndentIsZero ==
    /\ \A k \in DOMAIN Printed : Printed[k].res = 0
    /\ indent_level \in {0, 1}
    /\ \A k \in DOMAIN calls :
        calls[k].op = "visit" => calls[k - 1] = Call("drop", calls[k].node, 0)

\* The node of each entry of path, in push order.
PathNodes ==
    LET pushes == SelectSeq(calls, LAMBDA c : c.op \in {"push_root", "push"})
    IN  [i \in DOMAIN pushes |-> pushes[i].node]

(* C29 as stated: the path selection builds holds the root exactly once, as *)
(* its first entry; every later entry is the index, in its parent's         *)
(* children, of the node chosen at that level, the parent being the entry   *)
(* before; and the node search reaches by following the path after its      *)
(* first entry, the one it expands, is the node of the last entry, where    *)
(* selection stopped.                                                       *)
C29_SelectionPath ==
    /\ \A i \in DOMAIN PathNodes : PathNodes[i] = root <=> i = 1
    /\ \A i \in DOMAIN PathNodes :
        i > 1 =>
            /\ path[i] + 1 \in DOMAIN branch[PathNodes[i - 1]]
            /\ branch[PathNodes[i - 1]][path[i] + 1] = PathNodes[i]
    /\ (calls # <<>> /\ Last(calls).op = "expand") =>
        Last(calls).node = PathNodes[Len(PathNodes)]

(* What search does: once the root has a child, selection visits the root   *)
(* and pushes it a second time, so the path search follows is one level too *)
(* long: the node expanded is the first child of the node where selection   *)
(* stopped, and the root never gets a second child.                         *)
C29_RootPushedTwice ==
    /\ pc # "panicked"
    /\ Len(branch[root]) <= 1
    /\ Len(PathNodes) >= 2 => (PathNodes[2] = root /\ path[2] = 0)
    /\ (calls # <<>> /\ Last(calls).op = "expand") =>
        IF Len(PathNodes) = 1
        THEN Last(calls).node = root
        ELSE Last(calls).node = branch[PathNodes[Len(PathNodes)]][1]

====
